---- MODULE Spec2Model ----
(***************************************************************************)
(* Model of audio-in-stream-rs (src/src/main.rs): the audio input thread   *)
(* whose event-loop callback turns every input buffer into the text line   *)
(* input_buffer_info and stores it in an Arc<RwLock<String>>, and the main *)
(* thread whose HTTP loop copies that string into the /info page.          *)
(*                                                                         *)
(* Numbers.  An f32 sample is the integer count of 1/Unit steps (Unit = 4: *)
(* 3 is 0.75, -4 is -1.0).  A root mean square is carried as the reduced   *)
(* fraction under its square root and a dBov value as the fraction under   *)
(* 20*log10(sqrt(.)), next to the three outcomes f32 arithmetic has here:  *)
(* a number, -inf (log10 of 0) and NaN (0.0 / 0.0).  Arithmetic on the     *)
(* fractions is exact; f32 rounding is not modelled.                       *)
(***************************************************************************)
EXTENDS Integers, Sequences, FiniteSets, TLC

VARIABLES
    cpc,          \* audio input thread: "idle", "publish", "write_head", "write_rest", "panicked"
    cur,          \* the input buffer of the current (or last) callback invocation
    pending,      \* the callback's local input_buffer_info
    first_line,   \* the callback's captured first_line
    snapshot,     \* the String inside the RwLock
    readers,      \* RwLock: number of read guards alive
    writer,       \* RwLock: a write guard is alive
    spc,          \* main thread: "wait", "read_lock", "read_head", "read_rest", "respond"
    url,          \* the url of the request being answered
    resp,         \* the response being built
    arrived,      \* history: the buffers handed to the callback, in order
    published,    \* history: the values stored into the RwLock, in order
    p_in,         \* process_input_buffer on its own: the arguments
    p_out         \* process_input_buffer on its own: the outcome

vars == <<cpc, cur, pending, first_line, snapshot, readers, writer,
          spc, url, resp, arrived, published, p_in, p_out>>

-----------------------------------------------------------------------------
(* Bounds *)

MaxBuffers == 2
MaxLen == 2
PMaxLen == 6
MaxChannels == 3
Unit == 4

-----------------------------------------------------------------------------
(* sample_config, main.rs 139-144 *)

channels == 2
sample_rate == 44100

SampleFormats == {"U16", "I16", "F32"}

(* The raw sample values used as inputs: for the integer encodings zero and
   one extreme (the values cpal converts without a rounding step), for F32
   -1.0, 0.0 and the largest step below 1.0. *)
RawValues(fmt) ==
    CASE fmt = "F32" -> {-Unit, 0, Unit - 1}
      [] fmt = "I16" -> {-32768, 0}
      [] fmt = "U16" -> {32768, 65535}

(* cpal::Sample::to_f32 as called at main.rs 123: f32 is returned as is, i16
   is divided by 32768 below zero and by 32767 otherwise, u16 is first moved
   to i16 (x - 32768). *)
u16_to_i16(s) == s - 32768

i16_to_f32(s) == IF s < 0 THEN (s * Unit) \div 32768 ELSE (s * Unit) \div 32767

to_f32(fmt, s) ==
    CASE fmt = "F32" -> s
      [] fmt = "I16" -> i16_to_f32(s)
      [] fmt = "U16" -> i16_to_f32(u16_to_i16(s))

-----------------------------------------------------------------------------
(* f32 values *)

NaN == [kind |-> "nan", num |-> 0, den |-> 1]
NegInf == [kind |-> "neginf", num |-> 0, den |-> 1]

RECURSIVE GCD(_, _)
GCD(a, b) == IF b = 0 THEN a ELSE GCD(b, a % b)

(* num/den in lowest terms, tagged with what is applied to it *)
Frac(kind, num, den) ==
    LET g == GCD(num, den) IN [kind |-> kind, num |-> num \div g, den |-> den \div g]

-----------------------------------------------------------------------------
(* main.rs 24-33.  The loop counts n and adds x.powi(2); the result is
   (square_sum / n as f32).sqrt(), which for n = 0 is sqrt(0.0 / 0.0) = NaN:
   f32 division does not panic.  Samples are in 1/Unit steps, so the mean
   square is square_sum / (n * Unit^2). *)
RECURSIVE square_sum(_)
square_sum(values) ==
    IF values = <<>> THEN 0
    ELSE Head(values) * Head(values) + square_sum(Tail(values))

root_mean_square(values) ==
    LET n == Len(values) IN
    IF n = 0 THEN NaN
    ELSE Frac("sqrt", square_sum(values), n * Unit * Unit)

decibels_overload_Floored(loudness_level) ==
    CASE loudness_level.kind = "nan" -> NaN
      [] loudness_level.num = 0 -> [kind |-> "dbov", num |-> 1, den |-> 1073741824]
      [] OTHER -> [loudness_level EXCEPT !.kind = "dbov"]

(* main.rs 41-43: 20.0 * loudness_level.log10().  log10(0.0) is -inf and
   log10(NaN) is NaN; nothing replaces either. *)
decibels_overload(loudness_level) ==
    CASE loudness_level.kind = "nan" -> NaN
      [] loudness_level.num = 0 -> NegInf
      [] OTHER -> [loudness_level EXCEPT !.kind = "dbov"]

(* main.rs 45-47 and 49-61, as used at main.rs 219-222:
   horizontal_scale(1.0 + dbov / quantization_noise_ratio(16), 16).
   quantization_noise_ratio(bits) is 20*log10(2)*bits, so the argument is
   1 + log2(rms)/bits; clamp (main.rs 20-22) maps NaN and everything below 0
   to 0 and everything above 1 to 1; ivalue = (clamped * num_chars) as usize.
   With num_chars = bits this is the largest j in 0..num_chars with
   2^(j - num_chars) <= rms, i.e. num * 4^(num_chars - j) >= den. *)
RECURSIVE Quarterings(_, _, _, _)
Quarterings(num, den, k, limit) ==
    IF num >= den \/ k = limit THEN k
    ELSE Quarterings(num * 4, den, k + 1, limit)

horizontal_scale(dbov, num_chars) ==
    CASE dbov.kind = "nan" -> 0
      [] dbov.kind = "neginf" -> 0
      [] OTHER -> num_chars - Quarterings(dbov.num, dbov.den, 0, num_chars)

num_chars == 16

-----------------------------------------------------------------------------
(* main.rs 108-135 *)

Skip(s, k) == IF k >= Len(s) THEN <<>> ELSE SubSeq(s, k + 1, Len(s))

(* Iterator::step_by(n): the first element, then every n-th after it *)
RECURSIVE StepBy(_, _)
StepBy(s, n) ==
    IF s = <<>> THEN <<>>
    ELSE <<Head(s)>> \o StepBy(Skip(s, n), n)

ChannelSamples_SkipsOneMore(fmt, input_buffer, channel_index, num_channels) ==
    LET picked == StepBy(Skip(input_buffer, channel_index + 1), num_channels) IN
    [k \in 1..Len(picked) |-> to_f32(fmt, picked[k])]

ChannelSamples(fmt, input_buffer, channel_index, num_channels) ==
    LET picked == StepBy(Skip(input_buffer, channel_index), num_channels) IN
    [k \in 1..Len(picked) |-> to_f32(fmt, picked[k])]

ChannelData(samples) ==
    LET rms == root_mean_square(samples) IN
    [rms |-> rms, decibels_overload |-> decibels_overload(rms), samples |-> samples]

(* The two assert!s of main.rs 113-114 *)
GeometryOk(input_buffer, num_channels) ==
    num_channels > 0 /\ Len(input_buffer) % num_channels = 0

(* The Vec<ChannelData> returned; called only when GeometryOk holds *)
process_input_buffer(fmt, input_buffer, num_channels) ==
    [c \in 1..num_channels |->
        ChannelData(ChannelSamples(fmt, input_buffer, c - 1, num_channels))]

-----------------------------------------------------------------------------
(* main.rs 199-225: the line input_buffer_info.  "{:>7.3} ms" prints the
   milliseconds with three decimals, kept here as the rounded count of
   microseconds of 1000.0 * num_samples / sample_rate, where num_samples is
   input_buffer.len(), the length of the interleaved buffer. *)
DurationMicros(n) == (1000 * 1000 * n + sample_rate \div 2) \div sample_rate

input_buffer_info(fmt, num_samples, channel_data) ==
    [samples  |-> num_samples \div Len(channel_data),
     format   |-> fmt,
     channels |-> Len(channel_data),
     duration |-> DurationMicros(num_samples),
     chan     |-> [i \in 1..Len(channel_data) |->
                     [scale |-> horizontal_scale(channel_data[i].decibels_overload, num_chars),
                      dbov  |-> channel_data[i].decibels_overload]]]

(* String::new(), main.rs 153 *)
EmptyString ==
    [samples |-> 0, format |-> "", channels |-> 0, duration |-> 0, chan |-> <<>>]

(* The line the callback builds for one buffer *)
Report(b) ==
    input_buffer_info(b.fmt, Len(b.data), process_input_buffer(b.fmt, b.data, channels))

-----------------------------------------------------------------------------
(* std::sync::RwLock as used at main.rs 229 and 253 *)

WriteLockable_IgnoresReaders == ~writer

WriteLockable == readers = 0 /\ ~writer

ReadLockable_IgnoresWriter == TRUE

ReadLockable == ~writer

ReleaseRead_Leaks(r) == r

ReleaseRead(r) == r - 1

ReleaseWrite_Held == TRUE

ReleaseWrite == FALSE

(* A String is stored and copied in more than one machine step: the text up
   to the channel list, then the channel list. *)
StoreHead(s, info) ==
    [s EXCEPT !.samples = info.samples, !.format = info.format,
              !.channels = info.channels, !.duration = info.duration]

StoreRest_Nothing(s, info) == s

StoreRest(s, info) == [s EXCEPT !.chan = info.chan]

-----------------------------------------------------------------------------
(* State *)

NoBuffer == [fmt |-> "", data |-> <<>>]
NoResponse == [page |-> "", info |-> EmptyString]
NoInput == [fmt |-> "", data |-> <<>>, channels |-> 0]
NoOutcome == [status |-> "none", channel_data |-> <<>>]

SeqsUpTo(S, n) == UNION {[1..k -> S] : k \in 0..n}

Buffers == UNION {{[fmt |-> f, data |-> d] : d \in SeqsUpTo(RawValues(f), MaxLen)} : f \in SampleFormats}

Urls == {"/info", "/"}

Init ==
    /\ cpc = "idle"
    /\ cur = NoBuffer
    /\ pending = EmptyString
    /\ first_line = TRUE
    /\ snapshot = EmptyString
    /\ readers = 0
    /\ writer = FALSE
    /\ spc = "wait"
    /\ url = ""
    /\ resp = NoResponse
    /\ arrived = <<>>
    /\ published = <<>>
    /\ p_in = NoInput
    /\ p_out = NoOutcome

serving == <<spc, url, resp>>
capture == <<cpc, cur, pending, first_line>>
history == <<arrived, published>>
pure == <<p_in, p_out>>

-----------------------------------------------------------------------------
(* The audio input thread, main.rs 155-243 *)

(* main.rs 174-227: the callback is called with an input buffer b and runs
   up to the store into the RwLock; a failed assert! of process_input_buffer
   unwinds the thread. *)
Deliver(b) ==
    /\ cpc = "idle"
    /\ Len(arrived) < MaxBuffers
    /\ cur' = b
    /\ arrived' = Append(arrived, b)
    /\ IF GeometryOk(b.data, channels)
       THEN /\ pending' = Report(b)
            /\ cpc' = "publish"
       ELSE /\ pending' = pending
            /\ cpc' = "panicked"
    /\ UNCHANGED <<first_line, snapshot, readers, writer, serving, published, pure>>

(* main.rs 175 and 240: stream_result.expect("input stream error") on an
   Err, and unimplemented!() on stream data that is not input *)
CallbackPanics ==
    /\ cpc = "idle"
    /\ cpc' = "panicked"
    /\ UNCHANGED <<cur, pending, first_line, snapshot, readers, writer, serving, history, pure>>

(* main.rs 229: input_buffer_info_wlock.write() *)
WriteLock ==
    /\ cpc = "publish"
    /\ WriteLockable
    /\ writer' = TRUE
    /\ cpc' = "write_head"
    /\ UNCHANGED <<cur, pending, first_line, snapshot, readers, serving, history, pure>>

(* main.rs 229: the assignment through the guard *)
WriteHead ==
    /\ cpc = "write_head"
    /\ snapshot' = StoreHead(snapshot, pending)
    /\ cpc' = "write_rest"
    /\ UNCHANGED <<cur, pending, first_line, readers, writer, serving, history, pure>>

(* main.rs 229-238: the assignment ends, the guard is dropped at the end of
   the block, the line is ended and first_line cleared *)
WriteRest ==
    /\ cpc = "write_rest"
    /\ snapshot' = StoreRest(snapshot, pending)
    /\ writer' = ReleaseWrite
    /\ published' = Append(published, snapshot')
    /\ pending' = EmptyString
    /\ first_line' = FALSE
    /\ cpc' = "idle"
    /\ UNCHANGED <<cur, readers, serving, arrived, pure>>

-----------------------------------------------------------------------------
(* The main thread, main.rs 247-272 *)

(* main.rs 249-250 and 262-269 *)
Request(u) ==
    /\ spc = "wait"
    /\ url' = u
    /\ IF u = "/info"
       THEN /\ spc' = "read_lock"
            /\ resp' = resp
       ELSE /\ spc' = "respond"
            /\ resp' = [page |-> "received request!", info |-> EmptyString]
    /\ UNCHANGED <<capture, snapshot, readers, writer, history, pure>>

(* main.rs 253: input_buffer_info_rwlock.read() *)
ReadLock ==
    /\ spc = "read_lock"
    /\ ReadLockable
    /\ readers' = readers + 1
    /\ resp' = [page |-> "pre-reload.html", info |-> EmptyString]
    /\ spc' = "read_head"
    /\ UNCHANGED <<url, capture, snapshot, writer, history, pure>>

(* main.rs 251-254: format! copies the string into the page *)
ReadHead ==
    /\ spc = "read_head"
    /\ resp' = [resp EXCEPT !.info = StoreHead(@, snapshot)]
    /\ spc' = "read_rest"
    /\ UNCHANGED <<url, capture, snapshot, readers, writer, history, pure>>

(* main.rs 251-254: the copy ends and the read guard, a temporary of the
   format! arguments, is dropped *)
ReadRest ==
    /\ spc = "read_rest"
    /\ resp' = [resp EXCEPT !.info = StoreRest(@, snapshot)]
    /\ readers' = ReleaseRead(readers)
    /\ spc' = "respond"
    /\ UNCHANGED <<url, capture, snapshot, writer, history, pure>>

(* main.rs 271 *)
Respond ==
    /\ spc = "respond"
    /\ spc' = "wait"
    /\ url' = ""
    /\ resp' = NoResponse
    /\ UNCHANGED <<capture, snapshot, readers, writer, history, pure>>

Next ==
    \/ \E b \in Buffers : Deliver(b)
    \/ CallbackPanics
    \/ WriteLock
    \/ WriteHead
    \/ WriteRest
    \/ \E u \in Urls : Request(u)
    \/ ReadLock
    \/ ReadHead
    \/ ReadRest
    \/ Respond

Spec == Init /\ [][Next]_vars

(* Scheduling.  Both threads keep running: a thread that can take its next
   step takes it.  write() parks the audio thread until the lock is free and
   the unlock wakes it, so an acquisition that is possible again and again
   happens (strong fairness).  Buffers and requests come from outside and
   need not come at all. *)
FairSpec ==
    /\ Spec
    /\ SF_vars(WriteLock)
    /\ WF_vars(WriteHead)
    /\ WF_vars(WriteRest)
    /\ WF_vars(ReadLock)
    /\ WF_vars(ReadHead)
    /\ WF_vars(ReadRest)
    /\ WF_vars(Respond)

-----------------------------------------------------------------------------
(* process_input_buffer on its own, for any channel count *)

Inputs ==
    UNION {{[fmt |-> f, data |-> d, channels |-> n] :
              d \in SeqsUpTo(RawValues(f), PMaxLen), n \in 1..MaxChannels} :
           f \in SampleFormats}

PureInit ==
    /\ p_in \in Inputs
    /\ p_out = NoOutcome
    /\ cpc = "idle"
    /\ cur = NoBuffer
    /\ pending = EmptyString
    /\ first_line = TRUE
    /\ snapshot = EmptyString
    /\ readers = 0
    /\ writer = FALSE
    /\ spc = "wait"
    /\ url = ""
    /\ resp = NoResponse
    /\ arrived = <<>>
    /\ published = <<>>

(* main.rs 112-135 *)
Process ==
    /\ p_out.status = "none"
    /\ p_out' = IF GeometryOk(p_in.data, p_in.channels)
                THEN [status |-> "ok",
                      channel_data |-> process_input_buffer(p_in.fmt, p_in.data, p_in.channels)]
                ELSE [status |-> "panic", channel_data |-> <<>>]
    /\ UNCHANGED <<p_in, capture, snapshot, readers, writer, serving, history>>

PureNext == Process

PureSpec == PureInit /\ [][PureNext]_vars

-----------------------------------------------------------------------------
(* Properties *)

Range(f) == {f[i] : i \in DOMAIN f}

Latest(h) == IF h = <<>> THEN EmptyString ELSE h[Len(h)]

InFlight == cpc \in {"publish", "write_head", "write_rest"}

Accepted == SelectSeq(arrived, LAMBDA b : GeometryOk(b.data, channels))

AnsweringInfo == spc = "respond" /\ url = "/info"

(* C1: whatever the interleaving of the callback's stores and the HTTP
   loop's reads, the string a read copied into the /info page is the empty
   initial string or one published string as a whole, never a mixture; in
   particular its channel list is as long as its channel count says. *)
C1_ReadIsWholeReport ==
    AnsweringInfo =>
        /\ resp.info \in {EmptyString} \cup Range(published)
        /\ Len(resp.info.chan) = resp.info.channels

W1_ReadBesidePublish ==
    /\ AnsweringInfo
    /\ cpc = "write_rest"
    /\ published # <<>>
    /\ resp.info = published[1]
    /\ pending # published[1]

(* C2, as claimed: whenever the callback is ready to publish, the write lock
   can be taken, also while the HTTP loop is in the middle of a read. *)
C2_PublishNeverWaits == cpc = "publish" => ENABLED WriteLock

(* C2, amended: the callback waits for the HTTP loop only during the copy
   of one read; whenever it is ready to publish and the HTTP loop is not
   between taking and dropping the read guard, the write lock can be taken. *)
C2_PublishWaitsOnlyForCopy ==
    (cpc = "publish" /\ spc \notin {"read_head", "read_rest"}) => ENABLED WriteLock

W2_PublishWhileResponding ==
    /\ cpc = "publish"
    /\ AnsweringInfo
    /\ ENABLED WriteLock

(* C3: the strings stored into the RwLock are, in order, the lines of the
   buffers that arrived and passed the geometry check, one per buffer: none
   dropped, duplicated or reordered, and a buffer is fully published before
   the next is accepted. *)
C3_PublishedInArrivalOrder ==
    /\ Len(published) = Len(Accepted) - (IF InFlight THEN 1 ELSE 0)
    /\ \A i \in 1..Len(published) : published[i] = Report(Accepted[i])
    /\ InFlight => pending = Report(Accepted[Len(Accepted)])

W3_TwoPublished ==
    /\ cpc = "idle"
    /\ Len(published) = 2
    /\ published[1] # published[2]
    /\ snapshot = published[2]

ContractViolated(b) ==
    \/ Len(b.data) % channels # 0
    \/ Len(b.data) \div channels = 0

(* C4: a buffer that violates the contract (length not a multiple of the
   channel count, or no sample per channel) ends in a fatal failure: no line
   is built or published for it and the snapshot keeps its value. *)
C4_ViolationIsFatal ==
    (arrived # <<>> /\ ContractViolated(cur)) =>
        /\ cpc = "panicked"
        /\ Len(published) = Len(arrived) - 1
        /\ snapshot = Latest(published)

ServingStep ==
    \/ \E u \in Urls : Request(u)
    \/ ReadLock
    \/ ReadHead
    \/ ReadRest
    \/ Respond

(* C5: a contract violation in the audio thread ends the whole process:
   once the thread has failed, the HTTP loop takes no further step, so no
   snapshot read is answered afterwards. *)
C5_FailureStopsServing ==
    (cpc = "panicked" /\ arrived # <<>> /\ ~GeometryOk(cur.data, channels)) =>
        ~ENABLED ServingStep

(* C6: a read returns the latest complete report: the empty string before
   the first publish, and after a publish has completed exactly that string
   until the next publish begins; an older one is never returned again. *)
C6_ReadReturnsLatest ==
    [][(spc = "read_rest" /\ spc' = "respond") => resp'.info = Latest(published)]_vars

W6_ReadSecondReport ==
    /\ AnsweringInfo
    /\ Len(published) = 2
    /\ published[1] # published[2]
    /\ resp.info = published[2]

C8_DurationPerChannel ==
    \A i \in 1..Len(published) :
        published[i].duration = DurationMicros(published[i].samples)

Reinterleave(channel_data, len) ==
    [j \in 1..len |->
        channel_data[((j - 1) % Len(channel_data)) + 1].samples[((j - 1) \div Len(channel_data)) + 1]]

(* C9: deinterleaving is exact: for a channel count n >= 1 and a buffer
   whose length is a multiple of n, the result has n channels of length/n
   samples each, sample k of channel i is the sample at i + k*n of the
   buffer (as converted by to_f32, which leaves an f32 as it is), and
   interleaving the channels again gives back the buffer. *)
C9_DeinterleaveExact ==
    p_out.status = "ok" =>
        LET n == p_in.channels
            buf == p_in.data
            cd == p_out.channel_data
            per == Len(buf) \div n
        IN  /\ Len(cd) = n
            /\ \A i \in 0..(n - 1) :
                  /\ Len(cd[i + 1].samples) = per
                  /\ \A k \in 0..(per - 1) :
                        cd[i + 1].samples[k + 1] = to_f32(p_in.fmt, buf[i + k * n + 1])
            /\ Reinterleave(cd, Len(buf)) = [j \in 1..Len(buf) |-> to_f32(p_in.fmt, buf[j])]
            /\ p_in.fmt = "F32" => Reinterleave(cd, Len(buf)) = buf

W9_ThreeChannels ==
    /\ p_out.status = "ok"
    /\ p_in.fmt = "F32"
    /\ p_in.channels = 3
    /\ Len(p_in.data) = 6
    /\ Cardinality(Range(p_in.data)) = 3
    /\ p_out.channel_data[2].samples = <<p_in.data[2], p_in.data[5]>>

AllZero(samples) == samples # <<>> /\ \A k \in 1..Len(samples) : samples[k] = 0

SamplesOf(b, c) == ChannelSamples(b.fmt, b.data, c - 1, channels)

(* C10, as claimed: a channel whose samples are all zero reports a finite
   floor value, never -inf and never NaN. *)
C10_SilenceIsFloored ==
    \A i \in 1..Len(published) : \A c \in 1..channels :
        AllZero(SamplesOf(Accepted[i], c)) => published[i].chan[c].dbov.kind = "dbov"

(* C10, amended: a channel whose samples are all zero (rms = 0) reports
   -inf dBov, as the comment on decibels_overload says; no floor is applied.
   The value is never NaN, it is -inf for no channel with a nonzero sample,
   and the channel's scale is empty. *)
C10_SilenceIsNegInf ==
    \A i \in 1..Len(published) : \A c \in 1..channels :
        /\ AllZero(SamplesOf(Accepted[i], c)) =>
              /\ published[i].chan[c].dbov = NegInf
              /\ published[i].chan[c].scale = 0
        /\ (published[i].chan[c].dbov = NegInf) => AllZero(SamplesOf(Accepted[i], c))

W10_SilentChannelPublished ==
    /\ published # <<>>
    /\ AllZero(SamplesOf(Accepted[1], 1))
    /\ ~AllZero(SamplesOf(Accepted[1], 2))
    /\ published[1].chan[1].dbov = NegInf
    /\ published[1].chan[2].dbov.kind = "dbov"

====
